---- MODULE Spec2Model ----
(***************************************************************************)
(* The NWS point-forecast-matrix decoder and the forecast service of       *)
(* bin/user/forecast.py.                                                   *)
(*                                                                         *)
(* A Python str is a sequence of one-character strings, so that slicing,   *)
(* column positions, strip, split and startswith are computed as the code  *)
(* computes them.  Column positions keep Python's 0-based numbering: the   *)
(* character row[i] of the code is row[i + 1] of the model.                *)
(* Python's None is <<>> where the other values are non-empty sequences    *)
(* (the block's lines, a slot's token).                                    *)
(***************************************************************************)
EXTENDS Integers, Sequences, FiniteSets, TLC

None == <<>>

\* None where the other values are integers >= 0
NoneInt == -1

Digits == {"0", "1", "2", "3", "4", "5", "6", "7", "8", "9"}

DigitVal ==
  ("0" :> 0) @@ ("1" :> 1) @@ ("2" :> 2) @@ ("3" :> 3) @@ ("4" :> 4) @@
  ("5" :> 5) @@ ("6" :> 6) @@ ("7" :> 7) @@ ("8" :> 8) @@ ("9" :> 9)

\* str.isspace() of one character
isspace(c) == c \in {" ", "\t"}

\* s[a:b] of Python, for 0 <= a
Slice(s, a, b) == SubSeq(s, a + 1, IF b < Len(s) THEN b ELSE Len(s))

\* s[a:] of Python
SliceFrom(s, a) == SubSeq(s, a + 1, Len(s))

startswith(s, p) == Len(s) >= Len(p) /\ SubSeq(s, 1, Len(p)) = p

endswith(s, p) == Len(s) >= Len(p) /\ SubSeq(s, Len(s) - Len(p) + 1, Len(s)) = p

RECURSIVE lstrip(_)
lstrip(s) == IF s # <<>> /\ isspace(Head(s)) THEN lstrip(Tail(s)) ELSE s

RECURSIVE rstrip(_)
rstrip(s) ==
  IF s # <<>> /\ isspace(s[Len(s)]) THEN rstrip(SubSeq(s, 1, Len(s) - 1)) ELSE s

strip(s) == rstrip(lstrip(s))

\* s.split(sep) for a one-character separator: the pieces between the
\* occurrences of sep, empty pieces kept
split(s, sep) ==
  LET at == {i \in 1..Len(s) : s[i] = sep}
      n == Cardinality(at)
      pos(k) == IF k = 0 THEN 0
                ELSE IF k = n + 1 THEN Len(s) + 1
                ELSE CHOOSE p \in at : Cardinality({q \in at : q <= p}) = k
  IN  [k \in 1..(n + 1) |-> SubSeq(s, pos(k - 1) + 1, pos(k) - 1)]

\* text.splitlines(): lines end at "\n"; no empty last line after a final "\n"
splitlines(text) ==
  LET parts == split(text, "\n")
  IN  IF parts[Len(parts)] = <<>> THEN SubSeq(parts, 1, Len(parts) - 1) ELSE parts

AllDigits(s) == s # <<>> /\ \A i \in 1..Len(s) : s[i] \in Digits

RECURSIVE DecimalValue(_)
DecimalValue(s) ==
  IF s = <<>> THEN 0
  ELSE 10 * DecimalValue(SubSeq(s, 1, Len(s) - 1)) + DigitVal[s[Len(s)]]

\* int(s) raises ValueError unless s, stripped of whitespace, is all digits
int_raises(s) == ~AllDigits(strip(s))

int(s) == DecimalValue(strip(s))

\* mapping of NWS names to database fields
nws_label_dict ==
  (<<"H", "O", "U", "R">> :> "hour") @@
  (<<"M", "I", "N", "/", "M", "A", "X">> :> "tempMinMax") @@
  (<<"M", "A", "X", "/", "M", "I", "N">> :> "tempMaxMin") @@
  (<<"T", "E", "M", "P">> :> "temp") @@
  (<<"D", "E", "W", "P", "T">> :> "dewpoint") @@
  (<<"R", "H">> :> "humidity") @@
  (<<"W", "I", "N", "D", " ", "D", "I", "R">> :> "windDir") @@
  (<<"P", "W", "I", "N", "D", " ", "D", "I", "R">> :> "windDir") @@
  (<<"W", "I", "N", "D", " ", "S", "P", "D">> :> "windSpeed") @@
  (<<"W", "I", "N", "D", " ", "G", "U", "S", "T">> :> "windGust") @@
  (<<"W", "I", "N", "D", " ", "C", "H", "A", "R">> :> "windChar") @@
  (<<"C", "L", "O", "U", "D", "S">> :> "clouds") @@
  (<<"A", "V", "G", " ", "C", "L", "O", "U", "D", "S">> :> "clouds") @@
  (<<"P", "O", "P", " ", "1", "2", "H", "R">> :> "pop") @@
  (<<"Q", "P", "F", " ", "1", "2", "H", "R">> :> "qpf") @@
  (<<"S", "N", "O", "W", " ", "1", "2", "H", "R">> :> "qsf") @@
  (<<"R", "A", "I", "N">> :> "rain") @@
  (<<"R", "A", "I", "N", " ", "S", "H", "W", "R", "S">> :> "rainshwrs") @@
  (<<"T", "S", "T", "M", "S">> :> "tstms") @@
  (<<"D", "R", "I", "Z", "Z", "L", "E">> :> "drizzle") @@
  (<<"S", "N", "O", "W">> :> "snow") @@
  (<<"S", "N", "O", "W", " ", "S", "H", "W", "R", "S">> :> "snowshwrs") @@
  (<<"F", "L", "U", "R", "R", "I", "E", "S">> :> "flurries") @@
  (<<"S", "L", "E", "E", "T">> :> "sleet") @@
  (<<"F", "R", "Z", "N", "G", " ", "R", "A", "I", "N">> :> "frzngrain") @@
  (<<"F", "R", "Z", "N", "G", " ", "D", "R", "Z", "L">> :> "frzngdrzl") @@
  (<<"O", "B", "V", "I", "S">> :> "obvis") @@
  (<<"W", "I", "N", "D", " ", "C", "H", "I", "L", "L">> :> "windChill") @@
  (<<"H", "E", "A", "T", " ", "I", "N", "D", "E", "X">> :> "heatIndex")

(***************************************************************************)
(* date2ts: the issuance-time header.  time.strptime matches the string    *)
(* "<parts[0]> <parts[4]> <parts[5]> <parts[6]>" against "%H%M %b %d %Y";   *)
(* the pieces hold no blank, so each directive group has to consume its    *)
(* piece whole.  time.mktime and startOfDay are taken in a time zone of    *)
(* offset 0 without daylight saving.                                       *)
(***************************************************************************)

\* %H is 2[0-3]|[0-1]\d|\d and %M is [0-5]\d|\d, tried in this order
IsH2(s) ==
  /\ Len(s) = 2 /\ AllDigits(s)
  /\ \/ s[1] = "2" /\ DigitVal[s[2]] <= 3
     \/ s[1] \in {"0", "1"}

IsM2(s) == Len(s) = 2 /\ AllDigits(s) /\ DigitVal[s[1]] <= 5

HourMinute(tok) ==
  IF ~AllDigits(tok) \/ Len(tok) < 2 \/ Len(tok) > 4 THEN [ok |-> FALSE, H |-> 0, M |-> 0]
  ELSE IF Len(tok) = 4 THEN
    [ok |-> IsH2(SubSeq(tok, 1, 2)) /\ IsM2(SubSeq(tok, 3, 4)),
     H |-> DecimalValue(SubSeq(tok, 1, 2)), M |-> DecimalValue(SubSeq(tok, 3, 4))]
  ELSE IF Len(tok) = 3 THEN
    IF IsH2(SubSeq(tok, 1, 2))
    THEN [ok |-> TRUE, H |-> DecimalValue(SubSeq(tok, 1, 2)), M |-> DigitVal[tok[3]]]
    ELSE [ok |-> IsM2(SubSeq(tok, 2, 3)),
          H |-> DigitVal[tok[1]], M |-> DecimalValue(SubSeq(tok, 2, 3))]
  ELSE [ok |-> TRUE, H |-> DigitVal[tok[1]], M |-> DigitVal[tok[2]]]

\* %b: the abbreviated month names, numbered 1..12
MonthNames ==
  << <<"J", "A", "N">>, <<"F", "E", "B">>, <<"M", "A", "R">>, <<"A", "P", "R">>, <<"M", "A", "Y">>, <<"J", "U", "N">>,
     <<"J", "U", "L">>, <<"A", "U", "G">>, <<"S", "E", "P">>, <<"O", "C", "T">>, <<"N", "O", "V">>, <<"D", "E", "C">> >>

MonthNumber(tok) ==
  IF \E m \in 1..12 : MonthNames[m] = tok
  THEN CHOOSE m \in 1..12 : MonthNames[m] = tok
  ELSE 0

IsLeap(y) == (y % 4 = 0 /\ y % 100 # 0) \/ y % 400 = 0

DaysInMonth(m, y) ==
  IF m = 2 THEN (IF IsLeap(y) THEN 29 ELSE 28)
  ELSE IF m \in {4, 6, 9, 11} THEN 30 ELSE 31

\* %d is 3[0-1]|[1-2]\d|0[1-9]|[1-9]; %Y is four digits
DayNumber(tok) ==
  IF AllDigits(tok) /\ Len(tok) <= 2 /\ DecimalValue(tok) \in 1..31
  THEN DecimalValue(tok) ELSE 0

strptime(hm, b, d, Y) ==
  LET t == HourMinute(hm)
      m == MonthNumber(b)
      dd == DayNumber(d)
      okY == AllDigits(Y) /\ Len(Y) = 4 /\ DecimalValue(Y) >= 1
      y == IF okY THEN DecimalValue(Y) ELSE 0
      ok == t.ok /\ m # 0 /\ dd # 0 /\ okY /\ dd <= DaysInMonth(m, y)
  IN  [exc |-> IF ok THEN "" ELSE "ValueError",
       year |-> y, mon |-> m, mday |-> dd, hour |-> t.H, min |-> t.M]

LeapsBefore(y) == ((y - 1) \div 4) - ((y - 1) \div 100) + ((y - 1) \div 400)

RECURSIVE DaysBeforeMonth(_, _)
DaysBeforeMonth(m, y) ==
  IF m = 1 THEN 0 ELSE DaysBeforeMonth(m - 1, y) + DaysInMonth(m - 1, y)

\* seconds since 1970-01-01 00:00
mktime(tt) ==
  LET days == 365 * (tt.year - 1970) + LeapsBefore(tt.year) - LeapsBefore(1970)
              + DaysBeforeMonth(tt.mon, tt.year) + (tt.mday - 1)
  IN  days * 86400 + tt.hour * 3600 + tt.min * 60

date2ts(tstr) ==
  LET parts == split(tstr, " ")
  IN  IF Len(parts) < 7 THEN [exc |-> "IndexError", ts |-> 0]
      ELSE LET tt == strptime(parts[1], parts[5], parts[6], parts[7])
           IN  IF tt.exc # "" THEN [exc |-> tt.exc, ts |-> 0]
               ELSE [exc |-> "",
                     ts |-> mktime(tt) + (IF parts[2] = <<"P", "M">> THEN 12 * 3600 ELSE 0)]

\* weeutil.weeutil.startOfDay: the midnight at or before ts
startOfDay(ts) == ts - (ts % 86400)

(***************************************************************************)
(* ParseNWSForecast, step by step.  A step that raises gives a record      *)
(* whose exc names the exception; exc = "" is a normal completion.         *)
(***************************************************************************)

\* an empty dict
EmptyDict == [k \in {} |-> None]

\* d[k] = v
DictSet(d, k, v) == (k :> v) @@ d

\* del d[k]
DictDel(d, k) == [x \in (DOMAIN d) \ {k} |-> d[x]]

\* lasth = None
NoHour == NoneInt

\* the local variable mode before its first assignment
Unbound == 0

\* lines 639-651: the station's block, None when no line starts with id
RECURSIVE FindBlock(_, _, _, _)
FindBlock(alllines, i, lines, id) ==
  IF i > Len(alllines) THEN lines
  ELSE LET line == alllines[i]
       IN  IF startswith(line, id)
           THEN FindBlock(alllines, i + 1, <<line>>, id)
           ELSE IF lines # None
                THEN IF startswith(line, <<"$", "$">>)
                     THEN lines
                     ELSE FindBlock(alllines, i + 1, Append(lines, line), id)
                ELSE FindBlock(alllines, i + 1, lines, id)

ExtractBlock(text, id) == FindBlock(splitlines(text), 1, None, id)

\* lines 657-671: the labelled rows, sorted into rows3 and rows6
RECURSIVE SortRows(_, _, _, _, _)
SortRows(lines, i, mode, rows3, rows6) ==
  IF i > Len(lines) THEN [exc |-> "", mode |-> mode, rows3 |-> rows3, rows6 |-> rows6]
  ELSE LET line == lines[i]
           raw == strip(Slice(line, 0, 14))
           is3 == endswith(raw, <<"3", "H", "R", "L", "Y">>)
           is6 == ~is3 /\ endswith(raw, <<"6", "H", "R", "L", "Y">>)
           label == IF is3 \/ is6 THEN <<"H", "O", "U", "R">> ELSE raw
           m == IF is3 THEN 3 ELSE IF is6 THEN 6 ELSE mode
       IN  IF startswith(raw, <<"U", "T", "C">>)
           THEN SortRows(lines, i + 1, mode, rows3, rows6)
           ELSE IF label \in DOMAIN nws_label_dict
                THEN IF m = Unbound
                     THEN [exc |-> "UnboundLocalError", mode |-> m,
                           rows3 |-> rows3, rows6 |-> rows6]
                     ELSE IF m = 3
                          THEN SortRows(lines, i + 1, m,
                                 DictSet(rows3, nws_label_dict[label], SliceFrom(line, 14)),
                                 rows6)
                          ELSE SortRows(lines, i + 1, m, rows3,
                                 DictSet(rows6, nws_label_dict[label], SliceFrom(line, 14)))
                ELSE SortRows(lines, i + 1, m, rows3, rows6)

\* Rollover with <= for <
Rollover_le(day, lasth, h) ==
  IF lasth # NoHour /\ h <= lasth THEN day + 24 * 3600 ELSE day

\* lines 689-690 and 705-706: a new day when the hour goes backwards
Rollover(day, lasth, h) ==
  IF lasth # NoHour /\ h < lasth THEN day + 24 * 3600 ELSE day

\* lines 715-720: the last 6-hour token, when no whitespace follows it
FlushDay(day, lasth, h) == day

\* AddSlot without idx += 1
AddSlot_stuck(ax, key, day, h) ==
  [ax EXCEPT !.day = day, !.lasth = h,
             !.ts = Append(@, day + h * 3600), !.hour = Append(@, h),
             !.indices = DictSet(@, key, ax.idx)]

\* lines 692-695 and 708-711: one more slot, keyed by column key
AddSlot(ax, key, day, h) ==
  [ax EXCEPT !.day = day, !.lasth = h,
             !.ts = Append(@, day + h * 3600), !.hour = Append(@, h),
             !.indices = DictSet(@, key, ax.idx), !.idx = @ + 1]

\* Index3 with the map keyed by the cell's first column
RECURSIVE Index3_start(_, _, _)
Index3_start(row, i, ax) ==
  IF i >= Len(row) THEN ax
  ELSE LET cell == Slice(row, i, i + 2)
       IN  IF int_raises(cell) THEN [ax EXCEPT !.exc = "ValueError"]
           ELSE LET h == int(cell)
                IN  Index3_start(row, i + 3, AddSlot(ax, i, Rollover(ax.day, ax.lasth, h), h))

\* lines 685-696: the 3-hour indexing, from column i on
RECURSIVE Index3(_, _, _)
Index3(row, i, ax) ==
  IF i >= Len(row) THEN ax
  ELSE LET cell == Slice(row, i, i + 2)
       IN  IF int_raises(cell) THEN [ax EXCEPT !.exc = "ValueError"]
           ELSE LET h == int(cell)
                IN  Index3(row, i + 3, AddSlot(ax, i + 1, Rollover(ax.day, ax.lasth, h), h))

\* lines 698-720: the 6-hour indexing, from column i on, s the token so far
RECURSIVE Index6(_, _, _, _)
Index6(row, i, s, ax) ==
  IF i >= Len(row)
  THEN IF Len(s) > 0
       THEN IF int_raises(s) THEN [ax EXCEPT !.exc = "ValueError"]
            ELSE LET h == int(s)
                 IN  [AddSlot(ax, Len(row) - 1, FlushDay(ax.day, ax.lasth, h), h)
                        EXCEPT !.lasth = ax.lasth]
       ELSE ax
  ELSE IF isspace(row[i + 1])
       THEN IF Len(s) > 0
            THEN IF int_raises(s) THEN [ax EXCEPT !.exc = "ValueError"]
                 ELSE LET h == int(s)
                      IN  Index6(row, i + 1, <<>>,
                                 AddSlot(ax, i - 1, Rollover(ax.day, ax.lasth, h), h))
            ELSE Index6(row, i + 1, <<>>, ax)
       ELSE Index6(row, i + 1, Append(s, row[i + 1]), ax)

\* [None]*nidx
Nones(nidx) == [i \in 1..nidx |-> None]

\* Store that always writes the first slot
Store_first(col, indices, key, s) ==
  IF key \notin DOMAIN indices THEN [exc |-> "KeyError", col |-> col]
  ELSE [exc |-> "", col |-> [col EXCEPT ![1] = s]]

\* lines 736 and 741: matrix[label][indices[key]] = s
Store(col, indices, key, s) ==
  IF key \notin DOMAIN indices THEN [exc |-> "KeyError", col |-> col]
  ELSE [exc |-> "", col |-> [col EXCEPT ![indices[key] + 1] = s]]

\* lines 732-741: the tokens of one row, from column i on, s the token so far
RECURSIVE FillRow(_, _, _, _, _)
FillRow(row, i, s, col, indices) ==
  IF i >= Len(row)
  THEN IF Len(s) > 0 THEN Store(col, indices, Len(row) - 1, s)
       ELSE [exc |-> "", col |-> col]
  ELSE IF isspace(row[i + 1])
       THEN IF Len(s) > 0
            THEN LET r == Store(col, indices, i - 1, s)
                 IN  IF r.exc # "" THEN r
                     ELSE FillRow(row, i + 1, <<>>, r.col, indices)
            ELSE FillRow(row, i + 1, <<>>, col, indices)
       ELSE FillRow(row, i + 1, Append(s, row[i + 1]), col, indices)

\* lines 729-741: every label of rows still in todo
RECURSIVE FillLabels(_, _, _, _, _)
FillLabels(matrix, nidx, rows, indices, todo) ==
  IF todo = {} THEN [exc |-> "", matrix |-> matrix]
  ELSE LET label == CHOOSE l \in todo : TRUE
           col == IF label \in DOMAIN matrix THEN matrix[label] ELSE Nones(nidx)
           r == FillRow(rows[label], 0, <<>>, col, indices)
       IN  IF r.exc # "" THEN [exc |-> r.exc, matrix |-> matrix]
           ELSE FillLabels(DictSet(matrix, label, r.col), nidx, rows, indices,
                           todo \ {label})

\* lines 750-757 and 761-768: the min/max toggle from slot i on (state 0: min is next)
RECURSIVE Toggle(_, _, _, _, _)
Toggle(src, i, state, tempMin, tempMax) ==
  IF i > Len(src) THEN [tempMin |-> tempMin, tempMax |-> tempMax]
  ELSE IF src[i] # None
       THEN IF state = 0
            THEN Toggle(src, i + 1, 1, [tempMin EXCEPT ![i] = src[i]], tempMax)
            ELSE Toggle(src, i + 1, 0, tempMin, [tempMax EXCEPT ![i] = src[i]])
       ELSE Toggle(src, i + 1, state, tempMin, tempMax)

\* Resolve started in the other state
Resolve_swapped(matrix, key, state) ==
  IF key \in DOMAIN matrix
  THEN LET t == Toggle(matrix[key], 1, 1 - state, matrix["tempMin"], matrix["tempMax"])
       IN  DictDel(DictSet(DictSet(matrix, "tempMin", t.tempMin), "tempMax", t.tempMax),
                   key)
  ELSE matrix

\* Resolve without the del of lines 758 and 769
Resolve_kept(matrix, key, state) ==
  IF key \in DOMAIN matrix
  THEN LET t == Toggle(matrix[key], 1, state, matrix["tempMin"], matrix["tempMax"])
       IN  DictSet(DictSet(matrix, "tempMin", t.tempMin), "tempMax", t.tempMax)
  ELSE matrix

\* lines 748-758 and 759-769: resolve the combined row key, starting in state
Resolve(matrix, key, state) ==
  IF key \in DOMAIN matrix
  THEN LET t == Toggle(matrix[key], 1, state, matrix["tempMin"], matrix["tempMax"])
       IN  DictDel(DictSet(DictSet(matrix, "tempMin", t.tempMin), "tempMax", t.tempMax),
                   key)
  ELSE matrix

\* WithDefault with [] for [None]*nidx
WithDefault_empty(matrix, key, nidx) ==
  IF key \notin DOMAIN matrix THEN DictSet(matrix, key, <<>>) ELSE matrix

\* WithDefault that starts the target anew at every call
WithDefault_reset(matrix, key, nidx) == DictSet(matrix, key, Nones(nidx))

\* lines 744-747
WithDefault(matrix, key, nidx) ==
  IF key \notin DOMAIN matrix THEN DictSet(matrix, key, Nones(nidx)) ELSE matrix

filldata(matrix, nidx, rows, indices) ==
  LET r == FillLabels(matrix, nidx, rows, indices, DOMAIN rows)
  IN  IF r.exc # "" THEN r
      ELSE LET m1 == WithDefault(WithDefault(r.matrix, "tempMin", nidx), "tempMax", nidx)
               m2 == Resolve(m1, "tempMinMax", 0)
               m3 == Resolve(m2, "tempMaxMin", 1)
           IN  [exc |-> "", matrix |-> m3]

\* lines 673-683: the matrix and the calendar walk before the first hour row
NewMatrix(id, lines, ts) ==
  [id |-> id, desc |-> lines[2], location |-> lines[3], dateTime |-> ts,
   ts |-> <<>>, hour |-> <<>>]

NewAxis(day_ts) ==
  [exc |-> "", day |-> day_ts, lasth |-> NoHour, ts |-> <<>>, hour |-> <<>>,
   indices |-> EmptyDict, idx |-> 0]

\* lines 698-699: the 6-hour pass continues the walk with a map of its own
NextAxis(ax) == [ax EXCEPT !.indices = EmptyDict]

\* the values a call of ParseNWSForecast can end with
Returned(matrix) == [ret |-> "matrix", exc |-> "", matrix |-> matrix]

ReturnedNone == [ret |-> "None", exc |-> "", matrix |-> EmptyDict]

Raised(e) == [ret |-> "raise", exc |-> e, matrix |-> EmptyDict]

ReturnOf(f) == IF f.exc # "" THEN Raised(f.exc) ELSE Returned(f.matrix)

\* lines 722-725, after the first filldata
ParseFill6(rows, a6, f3) ==
  IF f3.exc # "" THEN Raised(f3.exc)
  ELSE ReturnOf(filldata(f3.matrix, a6.idx, rows.rows6, a6.indices))

\* lines 722-723, after the 6-hour indexing
ParseFill3(id, lines, ts, rows, a3, a6) ==
  IF a6.exc # "" THEN Raised(a6.exc)
  ELSE ParseFill6(rows, a6,
         filldata([NewMatrix(id, lines, ts) EXCEPT !.ts = a6.ts, !.hour = a6.hour],
                  a6.idx, rows.rows3, a3.indices))

\* lines 698-720, after the 3-hour indexing
ParseIndex6(id, lines, ts, rows, a3) ==
  IF a3.exc # "" THEN Raised(a3.exc)
  ELSE IF "hour" \notin DOMAIN rows.rows6 THEN Raised("KeyError")
  ELSE ParseFill3(id, lines, ts, rows, a3,
                  Index6(rows.rows6["hour"], 0, <<>>, NextAxis(a3)))

\* lines 673-696, after the rows are sorted
ParseIndex3(id, lines, ts, rows) ==
  IF rows.exc # "" THEN Raised(rows.exc)
  ELSE IF "hour" \notin DOMAIN rows.rows3 THEN Raised("KeyError")
  ELSE ParseIndex6(id, lines, ts, rows,
                   Index3(rows.rows3["hour"], 0, NewAxis(startOfDay(ts))))

\* lines 653-671, after the header is read
ParseRows(id, lines, d) ==
  IF d.exc # "" THEN Raised(d.exc)
  ELSE ParseIndex3(id, lines, d.ts, SortRows(lines, 1, Unbound, EmptyDict, EmptyDict))

\* ParseBlock without the test of line 650
ParseBlock_unchecked(id, lines) ==
  IF Len(lines) < 4 THEN Raised("IndexError")
  ELSE ParseRows(id, lines, date2ts(lines[4]))

\* lines 650-656, after the block is located
ParseBlock(id, lines) ==
  IF lines = None THEN ReturnedNone
  ELSE IF Len(lines) < 4 THEN Raised("IndexError")
  ELSE ParseRows(id, lines, date2ts(lines[4]))

ParseNWSForecast(text, id) == ParseBlock(id, ExtractBlock(text, id))

(***************************************************************************)
(* The bulletins the decoder is run on.                                    *)
(***************************************************************************)

\* the longest 3-hour and 6-hour hour rows, in cells
MaxN3 == 4

MaxN6 == 2

StationId == <<"M", "A", "Z", "0", "1", "4">>

DigitChar == <<"0", "1", "2", "3", "4", "5", "6", "7", "8", "9">>

TwoDigits(n) == <<DigitChar[(n \div 10) + 1], DigitChar[(n % 10) + 1]>>

\* a labelled row: the label in a field of 14 columns, then the data region
Line(label, data) == label \o [i \in 1..(14 - Len(label)) |-> " "] \o data

RECURSIVE Join(_)
Join(lines) ==
  IF lines = <<>> THEN <<>>
  ELSE IF Len(lines) = 1 THEN lines[1]
  ELSE lines[1] \o <<"\n">> \o Join(Tail(lines))

\* n hours from start, step hours apart
Run(start, step, n) == [k \in 1..n |-> (start + step * (k - 1)) % 24]

\* a 3-hour cell is "dd ", a 6-hour cell is " dd"; a shifted token ends one
\* column off the hour label's last column
Cell3(kind, v) ==
  IF kind = "tok" THEN TwoDigits(v) \o <<" ">>
  ELSE IF kind = "shift" THEN <<" ">> \o TwoDigits(v)
  ELSE <<" ", " ", " ">>

Cell6(kind, v) ==
  IF kind = "tok" THEN <<" ">> \o TwoDigits(v)
  ELSE IF kind = "shift" THEN TwoDigits(v) \o <<" ">>
  ELSE <<" ", " ", " ">>

RECURSIVE Cells3(_, _, _)
Cells3(kinds, vals, k) ==
  IF k > Len(vals) THEN <<>> ELSE Cell3(kinds[k], vals[k]) \o Cells3(kinds, vals, k + 1)

RECURSIVE Cells6(_, _, _)
Cells6(kinds, vals, k) ==
  IF k > Len(vals) THEN <<>> ELSE Cell6(kinds[k], vals[k]) \o Cells6(kinds, vals, k + 1)

AllTok(n) == [k \in 1..n |-> "tok"]

\* the hour rows; the 3-hour row ends with its last digit
Hour3(hs) == rstrip(Cells3(AllTok(Len(hs)), hs, 1))

Hour6(hs, trail) == Cells6(AllTok(Len(hs)), hs, 1) \o (IF trail THEN <<" ">> ELSE <<>>)

\* the data rows: every cell filled, every second cell filled, first token shifted
Pattern(kind, n) ==
  [k \in 1..n |-> IF kind = "full" THEN "tok"
                  ELSE IF kind = "sparse" THEN (IF k % 2 = 1 THEN "tok" ELSE "blank")
                  ELSE IF kind = "even" THEN (IF k % 2 = 0 THEN "tok" ELSE "blank")
                  ELSE IF k = 1 THEN "shift" ELSE "tok"]

Values(n, base) == [k \in 1..n |-> base + k]

Data3(kind, n) == rstrip(Cells3(Pattern(kind, n), Values(n, 50), 1))

Data6(kind, n) == rstrip(Cells6(Pattern(kind, n), Values(n, 30), 1))

IdLine == <<"M", "A", "Z", "0", "1", "4", "-", "1", "1", "2", "1", "0", "0", "-">>

DescLine == <<"N", "O", "R", "F", "O", "L", "K", "-">>

LocLine == <<"B", "O", "S", "T", "O", "N">>

Header(kind) ==
  IF kind = "AM" THEN <<"4", "1", "8", " ", "A", "M", " ", "E", "D", "T", " ", "S", "A", "T", " ", "M", "A", "Y", " ", "1", "1", " ", "2", "0", "1", "3">>
  ELSE IF kind = "PM" THEN <<"4", "1", "8", " ", "P", "M", " ", "E", "D", "T", " ", "S", "A", "T", " ", "M", "A", "Y", " ", "1", "1", " ", "2", "0", "1", "3">>
  ELSE IF kind = "short" THEN <<"4", "1", "8", " ", "P", "M", " ", "E", "D", "T">>
  ELSE <<"4", "x", "8", " ", "P", "M", " ", "E", "D", "T", " ", "S", "A", "T", " ", "M", "A", "Y", " ", "1", "1", " ", "2", "0", "1", "3">>

Top(kind) == <<IdLine, DescLine, LocLine, Header(kind)>>

OtherBlock == <<<<"M", "A", "Z", "0", "1", "3", "-", "1", "1", "2", "1", "0", "0", "-">>, <<"S", "U", "F", "F", "O", "L", "K", "-">>, <<"$", "$">>>>

Terminator == <<<<"$", "$">>>>

Section3(h3, kind) ==
  <<Line(<<"D", "A", "T", "E">>, <<"S", "A", "T">>), Line(<<"E", "D", "T", " ", "3", "H", "R", "L", "Y">>, Hour3(h3)),
    Line(<<"U", "T", "C", " ", "3", "H", "R", "L", "Y">>, Hour3([k \in 1..Len(h3) |-> (h3[k] + 4) % 24]))>>
  \o (IF kind = "none" THEN <<>> ELSE <<Line(<<"T", "E", "M", "P">>, Data3(kind, Len(h3)))>>)

Section6(h6, trail, kind) ==
  <<Line(<<"E", "D", "T", " ", "6", "H", "R", "L", "Y">>, Hour6(h6, trail)),
    Line(<<"U", "T", "C", " ", "6", "H", "R", "L", "Y">>, Hour6([k \in 1..Len(h6) |-> (h6[k] + 4) % 24], trail))>>
  \o (IF kind = "none" THEN <<>> ELSE <<Line(<<"P", "O", "P", " ", "1", "2", "H", "R">>, Data6(kind, Len(h6)))>>)

Hours3Set == {Run(s, 3, n) : s \in {18, 21}, n \in 1..MaxN3} \cup {<<21, 21>>, <<12, 9>>}

Hours6Set == {Run(s, 6, n) : s \in {2, 14, 20}, n \in 0..MaxN6} \cup {<<8, 8>>}

\* which data row, if any, has its first token shifted
DataKinds ==
  {<<"none", "none">>, <<"full", "full">>, <<"sparse", "sparse">>,
   <<"shift", "full">>, <<"full", "shift">>}

\* well-formed blocks over every time axis
AxisBulletins ==
  {Join(Top("PM") \o Section3(h3, d[1]) \o Section6(h6, trail, d[2]) \o Terminator) :
     h3 \in Hours3Set, h6 \in Hours6Set, trail \in BOOLEAN, d \in DataKinds}

\* blocks with an hour row missing, a data row ahead of the hour rows, a bad hour
RowBulletins ==
  {Join(Top("PM") \o body \o Terminator) :
     body \in {Section3(<<21, 0>>, "full"),
               Section6(<<8, 14>>, TRUE, "full"),
               <<Line(<<"D", "A", "T", "E">>, <<"S", "A", "T">>)>>,
               <<Line(<<"T", "E", "M", "P">>, Data3("full", 2))>> \o Section3(<<21, 0>>, "none")
                  \o Section6(<<8>>, TRUE, "none"),
               <<Line(<<"E", "D", "T", " ", "3", "H", "R", "L", "Y">>, <<"2", "1", " ", "x", "x">>)>> \o Section6(<<8>>, TRUE, "none"),
               Section3(<<21, 0>>, "none") \o <<Line(<<"E", "D", "T", " ", "6", "H", "R", "L", "Y">>, <<" ", "0", "8", " ", "x", "x">>)>>,
               <<Line(<<"E", "D", "T", " ", "3", "H", "R", "L", "Y">>, <<>>)>> \o Section6(<<>>, FALSE, "none")}}

\* where the block lies in the bulletin and what its header line is
Rows == Section3(<<21, 0>>, "full") \o Section6(<<8>>, TRUE, "full")

Block(hdr, again) ==
  (IF hdr = "missing" THEN <<IdLine, DescLine, LocLine>>
   ELSE IF hdr = "absent" THEN <<IdLine, DescLine, LocLine>> \o Rows
   ELSE IF again = "early" THEN <<IdLine, <<"M", "A", "Z", "0", "1", "4", " ", "Z", "O", "N", "E">>, DescLine, LocLine, Header(hdr)>> \o Rows
   ELSE IF again = "late" THEN Top(hdr) \o Rows \o <<<<"M", "A", "Z", "0", "1", "4", " ", "E", "N", "D">>>>
   ELSE Top(hdr) \o Rows)

After(term) ==
  IF term = "eof" THEN <<>>
  ELSE IF term = "term" THEN Terminator
  ELSE Terminator \o OtherBlock

BlockBulletins ==
  {Join((IF pre THEN OtherBlock ELSE <<>>) \o Block(hdr, again) \o After(term)) :
     pre \in BOOLEAN, hdr \in {"AM", "PM", "short", "badtime", "missing", "absent"},
     again \in {"no", "early", "late"}, term \in {"eof", "term", "next"}}

\* the MIN/MAX and MAX/MIN rows of a section of n cells
MinMaxKinds == {"none", "minmax", "maxmin", "both"}

MinMax3(mm, pat, n) ==
  (IF mm \in {"minmax", "both"}
   THEN <<Line(<<"M", "I", "N", "/", "M", "A", "X">>, rstrip(Cells3(Pattern(pat, n), Values(n, 40), 1)))>> ELSE <<>>)
  \o (IF mm \in {"maxmin", "both"}
      THEN <<Line(<<"M", "A", "X", "/", "M", "I", "N">>, rstrip(Cells3(Pattern(pat, n), Values(n, 60), 1)))>> ELSE <<>>)

MinMax6(mm, pat, n) ==
  (IF mm \in {"minmax", "both"}
   THEN <<Line(<<"M", "I", "N", "/", "M", "A", "X">>, rstrip(Cells6(Pattern(pat, n), Values(n, 20), 1)))>> ELSE <<>>)
  \o (IF mm \in {"maxmin", "both"}
      THEN <<Line(<<"M", "A", "X", "/", "M", "I", "N">>, rstrip(Cells6(Pattern(pat, n), Values(n, 70), 1)))>> ELSE <<>>)

\* blocks with combined minimum/maximum rows in either section
MinMaxBulletins ==
  {Join(Top("PM") \o Section3(h3, "none") \o MinMax3(m3, pat, Len(h3))
          \o Section6(h6, TRUE, "none") \o MinMax6(m6, pat, Len(h6)) \o Terminator) :
     h3 \in {Run(18, 3, n) : n \in 1..MaxN3}, h6 \in {Run(8, 6, n) : n \in 0..MaxN6},
     m3 \in MinMaxKinds, m6 \in MinMaxKinds, pat \in {"full", "sparse", "even"}}

\* a MIN/MAX row over five 3-hour slots with tokens 45, 62, 30 at slots 1, 3, 4
ToggleExample ==
  Join(Top("PM")
       \o <<Line(<<"E", "D", "T", " ", "3", "H", "R", "L", "Y">>, Hour3(<<18, 21, 0, 3, 6>>)),
            Line(<<"M", "I", "N", "/", "M", "A", "X">>,
                 rstrip(Cells3(<<"blank", "tok", "blank", "tok", "tok">>,
                               <<0, 45, 0, 62, 30>>, 1)))>>
       \o Section6(<<>>, TRUE, "none") \o Terminator)

\* the issuance headers: the time token, AM or PM, the day of the month
HeaderLine(tok, ampm, mday) == tok \o <<" ">> \o ampm \o <<" ", "E", "D", "T", " ", "S", "A", "T", " ", "M", "A", "Y", " ">> \o mday \o <<" ", "2", "0", "1", "3">>

HeaderTimes == {<<"1", "2", "3", "0">>, <<"1", "1", "5", "9">>, <<"0", "4", "1", "8">>, <<"4", "1", "8">>, <<"1", "3", "0">>, <<"2", "1", "8">>, <<"9", "5", "9">>}

HeaderBulletins ==
  {Join(<<IdLine, DescLine, LocLine, HeaderLine(t, a, d)>> \o Rows \o Terminator) :
     t \in HeaderTimes, a \in {<<"A", "M">>, <<"P", "M">>}, d \in {<<"1", "1">>, <<"3", "1">>}}

\* a block with a 3-hour section only; with an empty 6HRLY hour row after it
ThreeHourOnly(h3) == Join(Top("PM") \o Section3(h3, "full") \o Terminator)

ThreeHourAndEmpty(h3) ==
  Join(Top("PM") \o Section3(h3, "full") \o <<Line(<<"E", "D", "T", " ", "6", "H", "R", "L", "Y">>, <<>>)>> \o Terminator)

\* bulletins without the station
OtherBulletins ==
  {Join(OtherBlock), Join(OtherBlock \o OtherBlock), <<>>,
   Join(<<<<"$", "$">>, <<" ", "M", "A", "Z", "0", "1", "4", "-", "1", "1", "2", "1", "0", "0", "-">>, <<"$", "$">>>>)}

Bulletins ==
  AxisBulletins \cup RowBulletins \cup BlockBulletins \cup OtherBulletins
    \cup MinMaxBulletins \cup HeaderBulletins
    \cup {ToggleExample, ThreeHourOnly(<<18, 21, 0, 3>>), ThreeHourAndEmpty(<<18, 21, 0, 3>>)}

(***************************************************************************)
(* NWSForecast.get_forecast                                                *)
(***************************************************************************)

Foid == <<"B", "O", "X">>

\* weewx.US
US == 1

\* the result of DownloadNWSForecast: the text, or None
NoDownload == [none |-> TRUE, text |-> <<>>]

Download(text) == [none |-> FALSE, text |-> text]

\* line 575: the keys of matrix whose values are lists
ListKeys(matrix) == (DOMAIN matrix) \ {"id", "desc", "location", "dateTime"}

\* lines 567-577: the record of slot i
Record(matrix, i) ==
  [k \in ListKeys(matrix) |-> matrix[k][i]] @@
  [usUnits |-> US, method |-> "NWS", dateTime |-> matrix["dateTime"],
   ts |-> matrix["ts"][i], id |-> StationId, foid |-> Foid]

\* lines 552-580
NWSForecast_get_forecast(dl) ==
  IF dl.none THEN [ret |-> "None", exc |-> "", records |-> <<>>]
  ELSE LET m == ParseNWSForecast(dl.text, StationId)
       IN  IF m.ret = "raise" THEN [ret |-> "raise", exc |-> m.exc, records |-> <<>>]
           ELSE IF m.ret = "None" THEN [ret |-> "None", exc |-> "", records |-> <<>>]
           ELSE [ret |-> "records", exc |-> "",
                 records |-> [i \in 1..Len(m.matrix["ts"]) |-> Record(m.matrix, i)]]

\* the events and the seconds of clock a run of the service covers
MaxEvents == 3

MaxNow == 3

\* the service starts on 12 May 2013, 06:00
Boot == mktime([year |-> 2013, mon |-> 5, mday |-> 12, hour |-> 6, min |-> 0])

\* what a download can give
Downloads ==
  {NoDownload,
   Download(Join(Block("AM", "no") \o Terminator)),
   Download(Join(Block("PM", "no") \o Terminator \o OtherBlock)),
   Download(Join(OtherBlock \o OtherBlock)),
   Download(Join(Block("short", "no") \o Terminator)),
   Download(ThreeHourOnly(<<18, 21, 0, 3>>))}

(***************************************************************************)
(* The Zambretti forecaster.  Pressures are in hundredths of a millibar,   *)
(* pressure trends in tenths, the forecast number F in millionths.         *)
(***************************************************************************)

baro_top == 105000

baro_bottom == 95000

\* lines 450-451: the pressure adjustment of each wind sector
WindAdjust ==
  <<520, 420, 320, 105, -110, -315, -520, -835,
    -1150, -940, -730, -525, -320, -115, 90, 305>>

LUT_rising == <<"A", "B", "B", "C", "F", "G", "I", "J", "L", "M", "M", "Q", "T", "Y">>

LUT_falling == <<"B", "D", "H", "O", "R", "U", "V", "X", "X", "Z">>

LUT_steady ==
  <<"A", "B", "B", "B", "E", "K", "N", "N", "P", "P", "S", "W", "W", "X", "X", "X", "Z">>

\* lines 470-472: LUT[min(max(int(F + 0.5), 0), len(LUT) - 1)]
Lookup(F, LUT) ==
  LET n == (F + 500000) \div 1000000
      k == IF n < 0 THEN 0 ELSE IF n > Len(LUT) - 1 THEN Len(LUT) - 1 ELSE n
  IN  LUT[k + 1]

\* the code a call of ZambrettiCode returns; NoCode is None
NoCode == ""

\* lines 419-472, the parameters in the order of the def
ZambrettiCode(pressure, month, wind, trend, north) ==
  IF pressure = NoneInt THEN NoCode
  ELSE IF month < 0 \/ month > 11 THEN NoCode
  ELSE IF wind < 0 \/ wind > 15 THEN NoCode
  ELSE LET p0 == 95000 + ((105000 - 95000) * (pressure - baro_bottom))
                           \div (baro_top - baro_bottom)
           w == IF ~north THEN (wind + 8) % 16 ELSE wind
           p1 == p0 + WindAdjust[w + 1]
           summer == month >= 4 /\ month <= 9
       IN  IF trend >= 1
           THEN Lookup(1740 * (103140 - (IF north = summer THEN p1 + 320 ELSE p1)),
                       LUT_rising)
           ELSE IF trend <= -1
           THEN Lookup(1553 * (102995 - (IF north = summer THEN p1 - 320 ELSE p1)),
                       LUT_falling)
           ELSE Lookup(2314 * (103081 - p1), LUT_steady)

\* str.lower on the letters of a hemisphere name
lower(s) ==
  LET low == [c \in {"N", "O", "R", "T", "H", "S", "U"} |->
                CASE c = "N" -> "n" [] c = "O" -> "o" [] c = "R" -> "r" [] c = "T" -> "t"
                  [] c = "H" -> "h" [] c = "S" -> "s" [] c = "U" -> "u"]
  IN  [i \in 1..Len(s) |-> IF s[i] \in DOMAIN low THEN low[s[i]] ELSE s[i]]

\* time.gmtime(ts).tm_mon, for the years of the events
GmYears == 2013..2014

tm_mon(ts) ==
  CHOOSE m \in 1..12 : \E y \in GmYears :
    /\ mktime([year |-> y, mon |-> m, mday |-> 1, hour |-> 0, min |-> 0]) <= ts
    /\ ts < mktime([year |-> y, mon |-> m, mday |-> DaysInMonth(m, y), hour |-> 0, min |-> 0])
              + 86400

\* a Python bool where a number is expected, in tenths: True is 1, False is 0
BoolAsNumber(b) == IF b THEN 10 ELSE 0

\* lines 360-385: north is handed over as the fourth positional argument,
\* the parameter trend; the parameter north keeps its default True
ZambrettiForecast_get_forecast(hemi, record) ==
  IF record.dateTime = NoneInt THEN [ret |-> "None", exc |-> "", zcode |-> NoCode]
  ELSE IF record.windDir = NoneInt THEN [ret |-> "raise", exc |-> "TypeError", zcode |-> NoCode]
  ELSE LET month == tm_mon(record.dateTime) - 1
           wind == (2 * record.windDir) \div 45
           north == lower(hemi) # <<"s", "o", "u", "t", "h">>
           code == ZambrettiCode(record.barometer, month, wind, BoolAsNumber(north), TRUE)
       IN  IF code = NoCode THEN [ret |-> "None", exc |-> "", zcode |-> NoCode]
           ELSE [ret |-> "record", exc |-> "", zcode |-> code]

\* the configured hemispheres and the archive records of the events
Hemispheres == {<<"N", "O", "R", "T", "H">>, <<"S", "O", "U", "T", "H">>, <<"s", "o", "u", "t", "h">>, <<"N", "o", "r", "t", "h">>}

ZRecords ==
  [dateTime : {NoneInt,
               mktime([year |-> 2013, mon |-> 1, mday |-> 15, hour |-> 12, min |-> 0]),
               mktime([year |-> 2013, mon |-> 7, mday |-> 15, hour |-> 12, min |-> 0])},
   barometer : {NoneInt, 96000, 99000, 101000, 102000, 104000},
   windDir : {NoneInt, 0, 45, 100, 180, 270, 359, 360}]

(***************************************************************************)
(* DownloadNWSForecast: the loop of download attempts.                     *)
(***************************************************************************)

\* the largest integer max_tries
MaxTries == 3

\* line 537: max_tries is the default 3 or the string of the configuration
DefaultTries == 3

\* the exceptions of lines 625-626
CaughtErrors == {"URLError", "socket.error", "BadStatusLine", "IncompleteRead"}

\* an exception urlopen or read can raise that line 625 does not name
UncaughtErrors == {"ValueError"}

\* what the server can answer
Responses == {d.text : d \in Downloads \ {NoDownload}}

\* line 620: range(max_tries) has a next count
MoreTries_le(count, n) == count <= n

MoreTries(count, n) == count < n

\* the values a call of DownloadNWSForecast can end with
Fetching == [ret |-> "", exc |-> "", text |-> <<>>]

FetchedText(t) == [ret |-> "text", exc |-> "", text |-> t]

FetchedNone == [ret |-> "None", exc |-> "", text |-> <<>>]

FetchRaised(e) == [ret |-> "raise", exc |-> e, text |-> <<>>]

(***************************************************************************)
(* One call of ParseNWSForecast(text, StationId), step by step.            *)
(***************************************************************************)
VARIABLES
  text,      \* the bulletin
  pc,        \* where the call is
  lines,     \* the station's block
  ts,        \* the issuance time
  day_ts,    \* the start of the issuance day
  rows3,     \* field -> data region, 3-hour rows
  rows6,     \* field -> data region, 6-hour rows
  mode,      \* the granularity of the last hour row
  matrix,    \* the forecast matrix
  idx,       \* the next slot
  day,       \* the running day
  lasth,     \* the last hour parsed
  indices3,  \* column -> slot, 3-hour rows
  indices6,  \* column -> slot, 6-hour rows
  nidx3,     \* the number of 3-hour slots
  result,    \* what the call ended with
  now,       \* the clock of the service
  last_ts,   \* Forecast.last_ts
  archive,   \* the forecast table
  interval,  \* Forecast.interval
  max_age,   \* Forecast.max_age
  events,    \* the archive-record events so far
  served,    \* what the last download gave
  outcome,   \* how the last update_forecast ended
  hemisphere,\* ZambrettiForecast.hemisphere
  zrecord,   \* the archive record of the Zambretti event
  zresult,   \* what ZambrettiForecast.get_forecast ended with
  max_tries, \* the max_tries of a call of DownloadNWSForecast
  count,     \* the attempts begun
  dl_log,    \* the errors of the failed attempts, as logged
  fetched    \* what the call ended with

parser == <<text, pc, lines, ts, day_ts, rows3, rows6, mode, matrix, idx, day, lasth,
            indices3, indices6, nidx3, result>>

service == <<now, last_ts, archive, interval, max_age, events, served, outcome>>

zambretti == <<hemisphere, zrecord, zresult>>

download == <<max_tries, count, dl_log, fetched>>

vars == <<parser, service, zambretti, download>>

Running == [ret |-> "", exc |-> "", matrix |-> EmptyDict]


\* Forecast.__init__ and NWSForecast.__init__, lines 254-273 and 531-550
ServiceInit(i, m) ==
  /\ now = Boot
  /\ last_ts = 0
  /\ archive = <<>>
  /\ interval = i
  /\ max_age = m
  /\ events = 0
  /\ served = NoDownload
  /\ outcome = "idle"

\* no Zambretti service is configured
NoRecord == [dateTime |-> NoneInt, barometer |-> NoneInt, windDir |-> NoneInt]

Pending == [ret |-> "", exc |-> "", zcode |-> NoCode]

ZambrettiIdle ==
  /\ hemisphere = <<>>
  /\ zrecord = NoRecord
  /\ zresult = Pending

\* no download is under way
DownloadIdle ==
  /\ max_tries = [isstr |-> FALSE, n |-> DefaultTries]
  /\ count = 0
  /\ dl_log = <<>>
  /\ fetched = Fetching

ParserIdle ==
  /\ pc = "idle"
  /\ lines = None
  /\ ts = 0
  /\ day_ts = 0
  /\ rows3 = EmptyDict
  /\ rows6 = EmptyDict
  /\ mode = Unbound
  /\ matrix = EmptyDict
  /\ idx = 0
  /\ day = 0
  /\ lasth = NoHour
  /\ indices3 = EmptyDict
  /\ indices6 = EmptyDict
  /\ nidx3 = 0
  /\ result = Running

Init ==
  /\ text \in Bulletins
  /\ pc = "locate"
  /\ lines = None
  /\ ts = 0
  /\ day_ts = 0
  /\ rows3 = EmptyDict
  /\ rows6 = EmptyDict
  /\ mode = Unbound
  /\ matrix = EmptyDict
  /\ idx = 0
  /\ day = 0
  /\ lasth = NoHour
  /\ indices3 = EmptyDict
  /\ indices6 = EmptyDict
  /\ nidx3 = 0
  /\ result = Running
  /\ ServiceInit(10800, 604800)
  /\ ZambrettiIdle
  /\ DownloadIdle

\* an exception leaves the call
Raise(e) ==
  /\ pc' = "done"
  /\ result' = Raised(e)

\* lines 639-651
Locate ==
  /\ pc = "locate"
  /\ lines' = ExtractBlock(text, StationId)
  /\ IF lines' = None
     THEN pc' = "done" /\ result' = ReturnedNone
     ELSE pc' = "header" /\ UNCHANGED result
  /\ UNCHANGED <<text, ts, day_ts, rows3, rows6, mode, matrix, idx, day, lasth,
                 indices3, indices6, nidx3, service, zambretti, download>>

\* lines 655-656
ReadHeader ==
  /\ pc = "header"
  /\ LET d == IF Len(lines) < 4 THEN [exc |-> "IndexError", ts |-> 0]
              ELSE date2ts(lines[4])
     IN  IF d.exc # ""
         THEN Raise(d.exc) /\ UNCHANGED <<ts, day_ts>>
         ELSE /\ ts' = d.ts
              /\ day_ts' = startOfDay(d.ts)
              /\ pc' = "rows"
              /\ UNCHANGED result
  /\ UNCHANGED <<text, lines, rows3, rows6, mode, matrix, idx, day, lasth,
                 indices3, indices6, nidx3, service, zambretti, download>>

\* lines 653-683
ReadRows ==
  /\ pc = "rows"
  /\ LET r == SortRows(lines, 1, Unbound, EmptyDict, EmptyDict)
     IN  IF r.exc # ""
         THEN Raise(r.exc) /\ UNCHANGED <<rows3, rows6, mode, matrix, day>>
         ELSE /\ rows3' = r.rows3
              /\ rows6' = r.rows6
              /\ mode' = r.mode
              /\ matrix' = NewMatrix(StationId, lines, ts)
              /\ day' = day_ts
              /\ pc' = "index3"
              /\ UNCHANGED result
  /\ UNCHANGED <<text, lines, ts, day_ts, idx, lasth, indices3, indices6, nidx3, service, zambretti, download>>

\* the calendar walk so far, with an empty column map
Axis ==
  [exc |-> "", day |-> day, lasth |-> lasth, ts |-> matrix["ts"],
   hour |-> matrix["hour"], indices |-> EmptyDict, idx |-> idx]

\* lines 685-696
BuildIndex3 ==
  /\ pc = "index3"
  /\ LET a == IF "hour" \notin DOMAIN rows3 THEN [Axis EXCEPT !.exc = "KeyError"]
              ELSE Index3(rows3["hour"], 0, Axis)
     IN  IF a.exc # ""
         THEN Raise(a.exc) /\ UNCHANGED <<matrix, idx, day, lasth, indices3, nidx3>>
         ELSE /\ matrix' = [matrix EXCEPT !["ts"] = a.ts, !["hour"] = a.hour]
              /\ idx' = a.idx
              /\ day' = a.day
              /\ lasth' = a.lasth
              /\ indices3' = a.indices
              /\ nidx3' = a.idx
              /\ pc' = "index6"
              /\ UNCHANGED result
  /\ UNCHANGED <<text, lines, ts, day_ts, rows3, rows6, mode, indices6, service, zambretti, download>>

\* lines 698-720
BuildIndex6 ==
  /\ pc = "index6"
  /\ LET a == IF "hour" \notin DOMAIN rows6 THEN [Axis EXCEPT !.exc = "KeyError"]
              ELSE Index6(rows6["hour"], 0, <<>>, Axis)
     IN  IF a.exc # ""
         THEN Raise(a.exc) /\ UNCHANGED <<matrix, idx, day, lasth, indices6>>
         ELSE /\ matrix' = [matrix EXCEPT !["ts"] = a.ts, !["hour"] = a.hour]
              /\ idx' = a.idx
              /\ day' = a.day
              /\ lasth' = a.lasth
              /\ indices6' = a.indices
              /\ pc' = "fill3"
              /\ UNCHANGED result
  /\ UNCHANGED <<text, lines, ts, day_ts, rows3, rows6, mode, indices3, nidx3, service, zambretti, download>>

\* line 723
Fill3 ==
  /\ pc = "fill3"
  /\ LET f == filldata(matrix, idx, rows3, indices3)
     IN  IF f.exc # ""
         THEN Raise(f.exc) /\ UNCHANGED matrix
         ELSE matrix' = f.matrix /\ pc' = "fill6" /\ UNCHANGED result
  /\ UNCHANGED <<text, lines, ts, day_ts, rows3, rows6, mode, idx, day, lasth,
                 indices3, indices6, nidx3, service, zambretti, download>>

\* lines 724-725
Fill6 ==
  /\ pc = "fill6"
  /\ LET f == filldata(matrix, idx, rows6, indices6)
     IN  IF f.exc # ""
         THEN Raise(f.exc) /\ UNCHANGED matrix
         ELSE matrix' = f.matrix /\ pc' = "done" /\ result' = Returned(f.matrix)
  /\ UNCHANGED <<text, lines, ts, day_ts, rows3, rows6, mode, idx, day, lasth,
                 indices3, indices6, nidx3, service, zambretti, download>>

Next ==
  \/ Locate
  \/ ReadHeader
  \/ ReadRows
  \/ BuildIndex3
  \/ BuildIndex6
  \/ Fill3
  \/ Fill6

Spec == Init /\ [][Next]_vars

(***************************************************************************)
(* The NWS forecast service: archive-record events over a running clock.   *)
(***************************************************************************)

\* lines 294-299: the records of a forecast go to the table
save_forecast(table, fcast) == table \o fcast

\* lines 301-315: delete from the table where dateTime < cutoff
prune_forecasts(table, cutoff) == SelectSeq(table, LAMBDA r : ~(r["dateTime"] < cutoff))

\* update_forecast without the test of lines 277-281
update_forecast_unguarded(dl) ==
  /\ events < MaxEvents
  /\ events' = events + 1
  /\ IF FALSE
     THEN /\ outcome' = "skipped"
          /\ UNCHANGED <<last_ts, archive, served>>
     ELSE LET fcast == NWSForecast_get_forecast(dl)
          IN  /\ served' = dl
              /\ IF fcast.ret = "raise"
                 THEN outcome' = "raised" /\ UNCHANGED <<last_ts, archive>>
                 ELSE IF fcast.ret = "None"
                 THEN outcome' = "none" /\ UNCHANGED <<last_ts, archive>>
                 ELSE /\ outcome' = "saved"
                      /\ last_ts' = now
                      /\ archive' =
                           IF max_age # NoneInt
                           THEN prune_forecasts(save_forecast(archive, fcast.records),
                                                now - max_age)
                           ELSE save_forecast(archive, fcast.records)
  /\ UNCHANGED <<now, interval, max_age, parser, zambretti, download>>

\* update_forecast that stamps last_ts when get_forecast returns None
update_forecast_stamped(dl) ==
  /\ events < MaxEvents
  /\ events' = events + 1
  /\ IF last_ts # NoneInt /\ interval # NoneInt /\ now - interval < last_ts
     THEN /\ outcome' = "skipped"
          /\ UNCHANGED <<last_ts, archive, served>>
     ELSE LET fcast == NWSForecast_get_forecast(dl)
          IN  /\ served' = dl
              /\ IF fcast.ret = "raise"
                 THEN outcome' = "raised" /\ UNCHANGED <<last_ts, archive>>
                 ELSE IF fcast.ret = "None"
                 THEN outcome' = "none" /\ last_ts' = now /\ UNCHANGED archive
                 ELSE /\ outcome' = "saved"
                      /\ last_ts' = now
                      /\ archive' =
                           IF max_age # NoneInt
                           THEN prune_forecasts(save_forecast(archive, fcast.records),
                                                now - max_age)
                           ELSE save_forecast(archive, fcast.records)
  /\ UNCHANGED <<now, interval, max_age, parser, zambretti, download>>

\* lines 275-288: Forecast.update_forecast on an event at time now, the
\* download giving dl
update_forecast(dl) ==
  /\ events < MaxEvents
  /\ events' = events + 1
  /\ IF last_ts # NoneInt /\ interval # NoneInt /\ now - interval < last_ts
     THEN /\ outcome' = "skipped"
          /\ UNCHANGED <<last_ts, archive, served>>
     ELSE LET fcast == NWSForecast_get_forecast(dl)
          IN  /\ served' = dl
              /\ IF fcast.ret = "raise"
                 THEN outcome' = "raised" /\ UNCHANGED <<last_ts, archive>>
                 ELSE IF fcast.ret = "None"
                 THEN outcome' = "none" /\ UNCHANGED <<last_ts, archive>>
                 ELSE /\ outcome' = "saved"
                      /\ last_ts' = now
                      /\ archive' =
                           IF max_age # NoneInt
                           THEN prune_forecasts(save_forecast(archive, fcast.records),
                                                now - max_age)
                           ELSE save_forecast(archive, fcast.records)
  /\ UNCHANGED <<now, interval, max_age, parser, zambretti, download>>

NewArchiveRecord == \E dl \in Downloads : update_forecast(dl)

\* time.time() moves on
Tick ==
  /\ now < Boot + MaxNow
  /\ now' = now + 1
  /\ UNCHANGED <<last_ts, archive, interval, max_age, events, served, outcome, parser, zambretti, download>>

InitService ==
  /\ text = <<>>
  /\ ParserIdle
  /\ \E i \in {NoneInt, 2}, m \in {NoneInt, 86400} : ServiceInit(i, m)
  /\ ZambrettiIdle
  /\ DownloadIdle

NextService ==
  \/ NewArchiveRecord
  \/ Tick

SpecService == InitService /\ [][NextService]_vars


(***************************************************************************)
(* ZambrettiForecast.get_forecast on one archive record.                   *)
(***************************************************************************)

\* lines 352-358: the hemisphere of the configuration; the record of the event
InitZambretti ==
  /\ text = <<>>
  /\ ParserIdle
  /\ ServiceInit(300, 604800)
  /\ hemisphere \in Hemispheres
  /\ zrecord \in ZRecords
  /\ zresult = Pending
  /\ DownloadIdle

\* lines 360-385
Zambretti_get_forecast ==
  /\ zresult = Pending
  /\ zresult' = ZambrettiForecast_get_forecast(hemisphere, zrecord)
  /\ UNCHANGED <<hemisphere, zrecord, parser, service, download>>

NextZambretti == Zambretti_get_forecast

SpecZambretti == InitZambretti /\ [][NextZambretti]_vars

(***************************************************************************)
(* One call of DownloadNWSForecast(foid, url, max_tries), attempt by       *)
(* attempt.                                                                *)
(***************************************************************************)

\* lines 615-619: max_tries is an integer, or the string of the configuration
InitDownload ==
  /\ text = <<>>
  /\ ParserIdle
  /\ ServiceInit(10800, 604800)
  /\ ZambrettiIdle
  /\ max_tries \in [isstr : BOOLEAN, n : 0..MaxTries]
  /\ count = 0
  /\ dl_log = <<>>
  /\ fetched = Fetching

\* the loop has another attempt to make
Trying ==
  /\ fetched = Fetching
  /\ ~max_tries.isstr
  /\ MoreTries(count, max_tries.n)

\* lines 620-624: the attempt succeeds and its text is returned
AttemptSucceeds ==
  /\ Trying
  /\ \E t \in Responses : fetched' = FetchedText(t)
  /\ count' = count + 1
  /\ UNCHANGED <<max_tries, dl_log, parser, service, zambretti>>

\* lines 625-628: the attempt fails with a caught error, which is logged
AttemptFails ==
  /\ Trying
  /\ \E e \in CaughtErrors : dl_log' = Append(dl_log, e)
  /\ count' = count + 1
  /\ UNCHANGED <<max_tries, fetched, parser, service, zambretti>>

\* lines 622-623: the attempt raises an error that line 625 does not catch
AttemptRaises ==
  /\ Trying
  /\ \E e \in UncaughtErrors : fetched' = FetchRaised(e)
  /\ count' = count + 1
  /\ UNCHANGED <<max_tries, dl_log, parser, service, zambretti>>

\* lines 629-631: the loop is exhausted
Exhausted ==
  /\ fetched = Fetching
  /\ ~max_tries.isstr
  /\ ~MoreTries(count, max_tries.n)
  /\ fetched' = FetchedNone
  /\ UNCHANGED <<max_tries, count, dl_log, parser, service, zambretti>>

\* line 620: range() of a string raises TypeError
BadRange ==
  /\ fetched = Fetching
  /\ max_tries.isstr
  /\ fetched' = FetchRaised("TypeError")
  /\ UNCHANGED <<max_tries, count, dl_log, parser, service, zambretti>>

NextDownload ==
  \/ AttemptSucceeds
  \/ AttemptFails
  \/ AttemptRaises
  \/ Exhausted
  \/ BadRange

\* every call of urlopen and read returns or raises
SpecDownload == InitDownload /\ [][NextDownload]_vars /\ WF_vars(NextDownload)
(***************************************************************************)
(* What the claims speak of, read off the bulletin itself.                 *)
(***************************************************************************)

\* the whitespace-separated tokens of a row, as spans of 1-based positions
TokenSpans(row) ==
  {sp \in [first : 1..Len(row), last : 1..Len(row)] :
     /\ sp.first <= sp.last
     /\ \A i \in sp.first..sp.last : ~isspace(row[i])
     /\ sp.first = 1 \/ isspace(row[sp.first - 1])
     /\ sp.last = Len(row) \/ isspace(row[sp.last + 1])}

\* the same tokens, left to right
TokenSeq(row) ==
  LET S == TokenSpans(row)
  IN  [k \in 1..Cardinality(S) |->
         LET sp == CHOOSE s \in S : Cardinality({t \in S : t.first <= s.first}) = k
         IN  SubSeq(row, sp.first, sp.last)]

\* the call has returned a matrix
ReturnedMatrix == pc = "done" /\ result.ret = "matrix"

\* the time axis is complete: both hour rows are indexed
AxisBuilt == pc \in {"fill3", "fill6"} \/ ReturnedMatrix

\* the hour labels of the two hour rows, in slot order
HourTokens == TokenSeq(rows3["hour"]) \o TokenSeq(rows6["hour"])

HourLabels == [k \in 1..Len(HourTokens) |-> DecimalValue(HourTokens[k])]

\* hour labels that are hours of the day, no two neighbours equal
ValidHours ==
  /\ \A k \in 1..Len(HourTokens) : AllDigits(HourTokens[k]) /\ Len(HourTokens[k]) = 2
  /\ \A k \in 1..Len(HourLabels) : HourLabels[k] \in 0..23
  /\ \A k \in 1..(Len(HourLabels) - 1) : HourLabels[k] # HourLabels[k + 1]

StrictlyIncreasing(s) == \A k \in 1..(Len(s) - 1) : s[k] < s[k + 1]

\* C1: for a block whose 3HRLY and 6HRLY hour labels lie in 0..23 and differ
\* from their neighbours, the time axis of the returned matrix is strictly
\* increasing, the last 6-hour token included, with or without whitespace
\* after it.
C1_TimeAxisStrictlyIncreasing ==
  (ReturnedMatrix /\ ValidHours) => StrictlyIncreasing(result.matrix["ts"])

\* the slots at which a token of field f's row ends, by the row's column map
Received(f, rows, indices) ==
  IF f \in DOMAIN rows
  THEN {indices[sp.last - 1] + 1 :
          sp \in {t \in TokenSpans(rows[f]) : (t.last - 1) \in DOMAIN indices}}
  ELSE {}

\* the fields decoded from data rows
DecodedFields(m) ==
  ListKeys(m) \ {"ts", "hour", "tempMin", "tempMax"}

\* C2: in a returned matrix every list-valued field (hour, the decoded
\* fields, tempMin, tempMax) has exactly len(matrix['ts']) entries, and a
\* decoded field is None exactly at the slots that received no token.
C2_FieldLengths ==
  ReturnedMatrix =>
    LET m == result.matrix
    IN  /\ {"ts", "hour", "tempMin", "tempMax"} \subseteq ListKeys(m)
        /\ \A f \in ListKeys(m) : Len(m[f]) = Len(m["ts"])
        /\ \A f \in DecodedFields(m) : \A i \in 1..Len(m[f]) :
             (m[f][i] # None) <=>
               (i \in Received(f, rows3, indices3) \cup Received(f, rows6, indices6))

\* C2 witness: a returned matrix over 3-hour and 6-hour slots with a field
\* that has filled and empty slots
C2_Witness ==
  /\ ReturnedMatrix
  /\ nidx3 >= 2
  /\ Len(result.matrix["ts"]) > nidx3
  /\ "temp" \in DOMAIN result.matrix
  /\ \E i, j \in 1..Len(result.matrix["ts"]) :
       result.matrix["temp"][i] = None /\ result.matrix["temp"][j] # None

\* the slot indices a column map holds
Slots(indices) == {indices[c] : c \in DOMAIN indices}

InRowOrder(indices) ==
  \A c, d \in DOMAIN indices : c < d => indices[c] < indices[d]

\* C3: once the time axis is built, the 3-hour map holds the slots
\* 0..n3-1 and the 6-hour map the slots n3..N-1, each in row order and no
\* slot twice: disjoint, and together {0 .. len(matrix['ts'])-1}.
C3_SlotsPartition ==
  AxisBuilt =>
    /\ Slots(indices3) = 0..(nidx3 - 1)
    /\ Slots(indices6) = nidx3..(Len(matrix["ts"]) - 1)
    /\ Slots(indices3) \cap Slots(indices6) = {}
    /\ Slots(indices3) \cup Slots(indices6) = 0..(Len(matrix["ts"]) - 1)
    /\ Cardinality(DOMAIN indices3) = nidx3
    /\ Cardinality(DOMAIN indices6) = Len(matrix["ts"]) - nidx3
    /\ InRowOrder(indices3) /\ InRowOrder(indices6)

\* C3 witness: an axis of two or more slots of each granularity
C3_Witness ==
  /\ pc = "fill3"
  /\ nidx3 >= 2
  /\ Len(matrix["ts"]) >= nidx3 + 2

\* the step of the calendar walk from hour a to hour b, in seconds
Step(a, b) == (b - a) * 3600 + (IF b < a THEN 24 * 3600 ELSE 0)

\* C4: after the 3-hour pass, successive timestamps differ by the hour
\* difference plus 24 hours exactly when the hour went backwards; so in a
\* row whose hours advance by 3 modulo 24 they differ by exactly 10800.
C4_Rollover3 ==
  pc = "index6" =>
    LET t == matrix["ts"]
        h == matrix["hour"]
    IN  /\ Len(t) = nidx3 /\ Len(h) = nidx3
        /\ nidx3 > 0 => t[1] = day_ts + h[1] * 3600
        /\ \A k \in 1..(nidx3 - 1) : t[k + 1] - t[k] = Step(h[k], h[k + 1])
        /\ (\A k \in 1..(nidx3 - 1) : h[k + 1] = (h[k] + 3) % 24)
             => \A k \in 1..(nidx3 - 1) : t[k + 1] - t[k] = 10800

\* C4 witness: the 3-hour row 21 00 03 06
C4_Witness ==
  /\ pc = "index6"
  /\ matrix["hour"] = <<21, 0, 3, 6>>

\* C5: after the 6-hour pass, every 6-hour slot, the last token of the row
\* included, follows its predecessor (for the first one, the last 3-hour
\* slot) by the hour difference plus 24 hours iff the hour went backwards.
C5_Rollover6 ==
  pc = "fill3" =>
    LET t == matrix["ts"]
        h == matrix["hour"]
    IN  \A k \in nidx3..(Len(t) - 1) :
          k >= 1 => t[k + 1] - t[k] = Step(h[k], h[k + 1])

\* the block the bulletin holds for the station: from the first line that
\* starts with id up to the first later line that starts with $$
FirstBlock(alllines, id) ==
  LET starts == {i \in 1..Len(alllines) : startswith(alllines[i], id)}
  IN  IF starts = {} THEN None
      ELSE LET first == CHOOSE i \in starts : \A j \in starts : i <= j
               stops == {i \in (first + 1)..Len(alllines) :
                           startswith(alllines[i], <<"$", "$">>)}
               stop == IF stops = {} THEN Len(alllines) + 1
                       ELSE CHOOSE i \in stops : \A j \in stops : i <= j
           IN  SubSeq(alllines, first, stop - 1)

\* C6: the captured block begins at the first line that starts with the
\* identifier and runs up to the first following $$ line or the end of the
\* text, also when a later line of that range starts with the identifier.
C6_FirstBlock ==
  pc \notin {"locate", "idle"} => lines = FirstBlock(splitlines(text), StationId)

\* no line of the bulletin starts with the identifier
NotFound(t) ==
  LET alllines == splitlines(t)
  IN  \A i \in 1..Len(alllines) : ~startswith(alllines[i], StationId)

\* C7: when no line of the downloaded bulletin starts with the station
\* identifier, ParseNWSForecast returns None without raising, get_forecast
\* returns None, and update_forecast saves nothing and returns normally.
C7_NotFoundSkipped ==
  [][(events' # events /\ outcome' # "skipped" /\ ~served'.none
        /\ NotFound(served'.text))
       => /\ ParseNWSForecast(served'.text, StationId).ret = "None"
          /\ NWSForecast_get_forecast(served').ret = "None"
          /\ outcome' = "none"
          /\ archive' = archive
          /\ last_ts' = last_ts]_vars

\* C7 witness: an event whose bulletin lacks the station ended normally,
\* after an earlier forecast was saved
C7_Witness ==
  /\ outcome = "none"
  /\ ~served.none
  /\ NotFound(served.text)
  /\ Len(archive) > 0

\* some token of a recognized row ends at a column the map has no entry for
Unassignable(rows, indices) ==
  \E f \in DOMAIN rows : \E sp \in TokenSpans(rows[f]) :
    (sp.last - 1) \notin DOMAIN indices

\* C8: a token that ends at a column without an entry in its granularity's
\* slot index map is dropped and the parse goes on: filling never raises.
C8_TokenDropped ==
  [][(\/ pc = "fill3" /\ Unassignable(rows3, indices3)
      \/ pc = "fill6" /\ Unassignable(rows6, indices6))
       => result'.ret # "raise"]_vars

\* the block has an hour row of the granularity that is not a UTC row
HasHourRow(block, suffix) ==
  \E i \in 1..Len(block) :
    LET label == strip(Slice(block[i], 0, 14))
    IN  endswith(label, suffix) /\ ~startswith(label, <<"U", "T", "C">>)

\* the line is <time> <AM/PM> <TZ> <weekday> <month> <day> <year>
MatchesHeader(line) ==
  LET p == TokenSeq(line)
  IN  /\ Len(p) = 7
      /\ AllDigits(p[1]) /\ Len(p[1]) \in {3, 4}
      /\ p[2] \in {<<"A", "M">>, <<"P", "M">>}
      /\ MonthNumber(p[5]) # 0
      /\ AllDigits(p[6]) /\ Len(p[6]) \in {1, 2}
      /\ AllDigits(p[7]) /\ Len(p[7]) = 4

HeaderOK == Len(lines) >= 4 /\ MatchesHeader(lines[4])

\* C9: a block that is found but lacks the 3HRLY or the 6HRLY hour row
\* gives an empty or null result, not a failure.
C9_NoHourRows ==
  (/\ pc = "done" /\ lines # None /\ HeaderOK
   /\ ~(HasHourRow(lines, <<"3", "H", "R", "L", "Y">>)
        /\ HasHourRow(lines, <<"6", "H", "R", "L", "Y">>)))
    => \/ result.ret = "None"
       \/ result.ret = "matrix" /\ result.matrix["ts"] = <<>>

\* C10: a block whose fourth line is missing or is no issuance-time header
\* makes ParseNWSForecast return None.
C10_MalformedHeader ==
  (pc = "done" /\ lines # None /\ ~HeaderOK) => result.ret = "None"


(***************************************************************************)
(* Minimum and maximum temperatures.                                       *)
(***************************************************************************)

\* the source sequence of a combined row: per slot 1..n, the token of field
\* f's row that ends at the slot's column, None where there is none
SourceOf(f, rows, indices, n) ==
  [i \in 1..n |->
     IF f \in DOMAIN rows
        /\ \E sp \in TokenSpans(rows[f]) :
             (sp.last - 1) \in DOMAIN indices /\ indices[sp.last - 1] + 1 = i
     THEN LET sp == CHOOSE t \in TokenSpans(rows[f]) :
                      (t.last - 1) \in DOMAIN indices /\ indices[t.last - 1] + 1 = i
          IN  SubSeq(rows[f], sp.first, sp.last)
     ELSE None]

\* the number of non-null values of src up to slot i
Rank(src, i) == Cardinality({j \in 1..i : src[j] # None})

\* what a toggle started at the target 'start' writes to the target 'target'
Written(src, start, target) ==
  [i \in 1..Len(src) |->
     IF src[i] # None /\ ((Rank(src, i) % 2 = 1) <=> (target = start))
     THEN src[i] ELSE None]

\* sequence a with the non-null entries of b laid over it
Overlay(a, b) == [i \in 1..Len(a) |-> IF b[i] # None THEN b[i] ELSE a[i]]

\* the target before a filldata call: absent from the matrix, it starts null
Before(target) == IF target \in DOMAIN matrix THEN matrix[target] ELSE Nones(idx)

\* a target after a filldata call over rows: the MIN/MAX row resolved
\* min-first, then the MAX/MIN row resolved max-first
Resolved(target, rows, indices) ==
  Overlay(Overlay(Before(target),
                  Written(SourceOf("tempMinMax", rows, indices, idx), "tempMin", target)),
          Written(SourceOf("tempMaxMin", rows, indices, idx), "tempMax", target))

\* C11: in each filldata call that completes, every non-null value of a
\* MIN/MAX row (started at tempMin) or MAX/MIN row (started at tempMax) is
\* written at its own slot to the current target and flips the target, a
\* null slot writes nothing and does not flip: the k-th non-null value goes
\* to the starting target iff k is odd.
C11_MinMaxToggle ==
  [][(pc \in {"fill3", "fill6"} /\ pc' # pc /\ result'.ret # "raise")
       => LET rows == IF pc = "fill3" THEN rows3 ELSE rows6
              indices == IF pc = "fill3" THEN indices3 ELSE indices6
          IN  /\ matrix'["tempMin"] = Resolved("tempMin", rows, indices)
              /\ matrix'["tempMax"] = Resolved("tempMax", rows, indices)]_vars

\* C11 witness: the source [None,'45',None,'62','30'] resolved min-first
C11_Witness ==
  /\ ReturnedMatrix
  /\ text = ToggleExample
  /\ SourceOf("tempMinMax", rows3, indices3, idx)
       = <<None, <<"4", "5">>, None, <<"6", "2">>, <<"3", "0">>>>
  /\ result.matrix["tempMin"] = <<None, <<"4", "5">>, None, None, <<"3", "0">>>>
  /\ result.matrix["tempMax"] = <<None, None, None, <<"6", "2">>, None>>

\* C12: every returned matrix has tempMin and tempMax, of the same length,
\* and has neither tempMinMax nor tempMaxMin, whatever MIN/MAX and MAX/MIN
\* rows the two sections hold.
C12_MinMaxKeys ==
  ReturnedMatrix =>
    LET m == result.matrix
    IN  /\ "tempMin" \in DOMAIN m /\ "tempMax" \in DOMAIN m
        /\ Len(m["tempMin"]) = Len(m["tempMax"])
        /\ "tempMinMax" \notin DOMAIN m /\ "tempMaxMin" \notin DOMAIN m

\* C12 witness: a matrix returned for a block with a MIN/MAX row in the
\* 3-hour section and a MAX/MIN row in the 6-hour section
C12_Witness ==
  /\ ReturnedMatrix
  /\ "tempMinMax" \in DOMAIN rows3 /\ "tempMaxMin" \notin DOMAIN rows3
  /\ "tempMaxMin" \in DOMAIN rows6 /\ "tempMinMax" \notin DOMAIN rows6
  /\ \E i \in 1..nidx3 : result.matrix["tempMin"][i] # None
  /\ \E i \in (nidx3 + 1)..idx : result.matrix["tempMax"][i] # None

(***************************************************************************)
(* The records of a forecast.                                              *)
(***************************************************************************)

\* the output fields of the label table: every field a row can be decoded
\* into, the combined rows replaced by tempMin and tempMax
OutputFields ==
  ({nws_label_dict[l] : l \in DOMAIN nws_label_dict} \ {"hour", "tempMinMax", "tempMaxMin"})
    \cup {"tempMin", "tempMax"}

\* record rec is slot i of matrix m, with the given fields, null where the
\* matrix has no such field
RecordOfSlot(rec, m, i, fields) ==
  /\ {"dateTime", "ts", "hour", "id", "foid"} \subseteq DOMAIN rec
  /\ rec["dateTime"] = m["dateTime"]
  /\ rec["ts"] = m["ts"][i]
  /\ rec["hour"] = m["hour"][i]
  /\ rec["id"] = StationId
  /\ rec["foid"] = Foid
  /\ \A f \in fields :
       /\ f \in DOMAIN rec
       /\ rec[f] = (IF f \in DOMAIN m THEN m[f][i] ELSE None)

\* C13: a forecast that is saved has exactly one record per slot, in the
\* order of the time axis; record i carries the issuance time, the slot's
\* timestamp and hour, the station and office ids, and a key for every
\* output field of the label table, null when the bulletin had no such row.
C13_RecordPerSlot ==
  outcome = "saved" =>
    LET m == ParseNWSForecast(served.text, StationId).matrix
        recs == NWSForecast_get_forecast(served).records
    IN  /\ Len(recs) = Len(m["ts"])
        /\ \A i \in 1..Len(recs) : RecordOfSlot(recs[i], m, i, OutputFields)

\* the temperature tokens of the 3-hour-only block, in order
FourTemps == TokenSeq(Data3("full", 4))

\* C14: an event served the block with the 3-hour hour row 18 21 00 03, a
\* temperature row of 4 aligned tokens and no 6-hour row saves exactly 4
\* records, 3 hours apart with the day boundary after 21, whose temperatures
\* are the 4 tokens in order.
C14_ThreeHourBlock ==
  (outcome # "skipped" /\ served = Download(ThreeHourOnly(<<18, 21, 0, 3>>)))
    => /\ outcome = "saved"
       /\ LET recs == NWSForecast_get_forecast(served).records
              day0 == startOfDay(recs[1]["ts"])
          IN  /\ Len(recs) = 4
              /\ \A i \in 1..3 : recs[i + 1]["ts"] - recs[i]["ts"] = 10800
              /\ startOfDay(recs[2]["ts"]) = day0
              /\ startOfDay(recs[3]["ts"]) = day0 + 86400
              /\ \A i \in 1..4 : recs[i]["temp"] = FourTemps[i]

(***************************************************************************)
(* The column maps.                                                        *)
(***************************************************************************)

\* the map that sends column 3k + off to slot k, for the n cells of a row
CellMap(n, off) == [c \in {3 * k + off : k \in 0..(n - 1)} |-> (c - off) \div 3]

\* C15 as stated: after the 3-hour pass the 3-hour map is keyed by each
\* cell's starting column, the k-th cell under column 3k with slot k.
C15_StartingColumn ==
  pc = "index6" => indices3 = CellMap(nidx3, 0)

\* C15 amended: after the 3-hour pass the 3-hour map is keyed by the column
\* next to each cell's starting column, where a two-character hour label
\* ends: the k-th cell is recorded under column 3k+1 with slot k.
C15_EndingColumn ==
  pc = "index6" => indices3 = CellMap(nidx3, 1)

\* C15 witness: four cells, the last one recorded under column 10
C15_Witness ==
  /\ pc = "index6"
  /\ nidx3 = 4
  /\ 10 \in DOMAIN indices3 /\ indices3[10] = 3
  /\ 9 \notin DOMAIN indices3

\* the k-th token of the hour row ends at a column the map sends to slot
\* first + k - 1, and the map has no other column
KeyedByLabelEnds(row, indices, first) ==
  LET S == TokenSpans(row)
  IN  /\ DOMAIN indices = {sp.last - 1 : sp \in S}
      /\ \A sp \in S :
           indices[sp.last - 1] = first + Cardinality({t \in S : t.first < sp.first})

\* every token of every row of rows sits in the matrix at the slot the map
\* gives for its ending column; a token of a combined row sits there in
\* tempMin or tempMax
TokensStored(m, rows, indices) ==
  \A f \in DOMAIN rows : \A sp \in TokenSpans(rows[f]) :
    /\ (sp.last - 1) \in DOMAIN indices
    /\ LET slot == indices[sp.last - 1] + 1
           tok == SubSeq(rows[f], sp.first, sp.last)
       IN  IF f \in {"tempMinMax", "tempMaxMin"}
           THEN m["tempMin"][slot] = tok \/ m["tempMax"][slot] = tok
           ELSE m[f][slot] = tok

\* C16: in a returned matrix every token of a recognized row, a last one
\* without whitespace after it included, is stored at the slot its
\* granularity's map gives for the token's ending column; the 3-hour map
\* sends the end of the k-th hour label to slot k, the 6-hour map the end of
\* the j-th 6-hour label to slot n3+j; a slot no token ends at stays null.
C16_TokensByEndingColumn ==
  ReturnedMatrix =>
    LET m == result.matrix
    IN  /\ KeyedByLabelEnds(rows3["hour"], indices3, 0)
        /\ KeyedByLabelEnds(rows6["hour"], indices6, nidx3)
        /\ TokensStored(m, rows3, indices3)
        /\ TokensStored(m, rows6, indices6)
        /\ \A f \in DecodedFields(m) : \A i \in 1..Len(m[f]) :
             (i \notin Received(f, rows3, indices3) \cup Received(f, rows6, indices6))
               => m[f][i] = None

\* C16 witness: a 3-hour and a 6-hour data row, each ending with a token
\* and each with an empty cell, decoded into a returned matrix
C16_Witness ==
  /\ ReturnedMatrix
  /\ "temp" \in DOMAIN rows3 /\ "pop" \in DOMAIN rows6
  /\ nidx3 >= 3 /\ idx >= nidx3 + 1
  /\ ~isspace(rows3["temp"][Len(rows3["temp"])])
  /\ ~isspace(rows6["pop"][Len(rows6["pop"])])
  /\ result.matrix["temp"][2] = None /\ result.matrix["temp"][3] # None
  /\ result.matrix["pop"][idx] # None

(***************************************************************************)
(* The issuance time.                                                      *)
(***************************************************************************)

\* an HHMM token read as a time of day: the last two digits are the
\* minutes, the digits before them the hour
ClockReading(tok) ==
  [H |-> DecimalValue(SubSeq(tok, 1, Len(tok) - 2)),
   M |-> DecimalValue(SubSeq(tok, Len(tok) - 1, Len(tok)))]

\* C17: the issuance time is the header's HHMM token read as a 24-hour time
\* on the header's month, day and year, plus 12 hours exactly when the
\* second token is PM, hour 12 not excepted; the time axis starts at the
\* start of the day of that timestamp.
C17_HeaderTime ==
  (pc = "rows" /\ MatchesHeader(lines[4])) =>
    LET p == TokenSeq(lines[4])
        r == ClockReading(p[1])
        base == mktime([year |-> DecimalValue(p[7]), mon |-> MonthNumber(p[5]),
                        mday |-> DecimalValue(p[6]), hour |-> r.H, min |-> r.M])
    IN  /\ ts = base + (IF p[2] = <<"P", "M">> THEN 12 * 3600 ELSE 0)
        /\ day_ts = startOfDay(ts)

(***************************************************************************)
(* The schedule of the service.                                            *)
(***************************************************************************)

\* C18: get_forecast is invoked at an event only when the interval has
\* elapsed since last_ts (now - interval >= last_ts), the first event always
\* qualifying; last_ts changes only at an event that saved a forecast, and
\* then to the time of that event; so two events that saved a forecast are
\* at least interval seconds apart.
C18_IntervalElapsed ==
  [][/\ (events' # events /\ outcome' # "skipped" /\ interval # NoneInt)
          => now - interval >= last_ts
     /\ (events' # events /\ events = 0) => outcome' # "skipped"
     /\ last_ts' # last_ts
          => (events' # events /\ outcome' = "saved" /\ last_ts' = now)
     /\ (events' # events /\ outcome' = "saved") => last_ts' = now
     /\ (events' # events /\ outcome' = "saved" /\ interval # NoneInt /\ last_ts # 0)
          => now - last_ts >= interval]_vars

\* C18 witness: an event inside the interval of a saved forecast was skipped
C18_Witness ==
  /\ outcome = "skipped"
  /\ interval = 2
  /\ last_ts = Boot
  /\ now = Boot + 1
  /\ Len(archive) > 0

\* C19: an event at which get_forecast returns None (no download, or the
\* station not found) leaves last_ts and the table as they were: nothing is
\* saved, nothing pruned; the event makes one attempt, and the next event is
\* not skipped.
C19_NoneLeavesState ==
  [][/\ (events' # events /\ outcome' # "skipped"
           /\ NWSForecast_get_forecast(served').ret = "None")
          => /\ outcome' = "none"
             /\ last_ts' = last_ts
             /\ archive' = archive
             /\ events' = events + 1
     /\ (events' # events /\ outcome = "none") => outcome' # "skipped"]_vars

\* C19 witness: the download failed at an event after an earlier forecast
\* was saved, and the time of that forecast is still last_ts
C19_Witness ==
  /\ outcome = "none"
  /\ served.none
  /\ Len(archive) > 0
  /\ last_ts = Boot
  /\ now > Boot

(***************************************************************************)
(* The hemisphere of the Zambretti forecast.                               *)
(***************************************************************************)

\* a falling, a steady and a rising pressure trend
Trends == {-10, 0, 10}

\* the service is configured for the southern hemisphere
Southern == lower(hemisphere) = <<"s", "o", "u", "t", "h">>

\* C20: the code of a Zambretti record is ZambrettiCode of the record's
\* pressure, month and wind sector with north = False when the hemisphere
\* is SOUTH and north = True otherwise, for some pressure trend: the
\* hemisphere decides the wind rotation and the summer test, not the trend.
C20_Hemisphere ==
  zresult.ret = "record" =>
    \E trend \in Trends :
      zresult.zcode = ZambrettiCode(zrecord.barometer, tm_mon(zrecord.dateTime) - 1,
                                    (2 * zrecord.windDir) \div 45, trend, ~Southern)

(***************************************************************************)
(* The download.                                                           *)
(***************************************************************************)

\* the call has ended
Fetched == fetched # Fetching

\* C21: a call with an integer max_tries makes at most max_tries attempts
\* and ends; it returns the text of the first attempt that succeeds and
\* makes no attempt after it; it returns None exactly when all max_tries
\* attempts failed with a caught error, with no attempt when max_tries = 0.
C21_DownloadTerminates ==
  /\ [](~max_tries.isstr =>
          /\ count <= max_tries.n
          /\ Len(dl_log) <= count
          /\ fetched.ret = "text" => (Len(dl_log) = count - 1 /\ fetched.text \in Responses)
          /\ fetched.ret = "None" <=> (Fetched /\ Len(dl_log) = max_tries.n
                                         /\ count = max_tries.n)
          /\ (fetched.ret = "None" /\ max_tries.n = 0) => count = 0)
  /\ [][Fetched => UNCHANGED download]_vars
  /\ (~max_tries.isstr ~> Fetched)

\* C21 witness: the third of three attempts succeeded after two caught errors
C21_Witness ==
  /\ ~max_tries.isstr /\ max_tries.n = 3
  /\ fetched.ret = "text"
  /\ count = 3
  /\ Len(dl_log) = 2

(***************************************************************************)
(* The granularity of a row.                                               *)
(***************************************************************************)

\* the label of line i of the block, its first 14 columns stripped
LabelOf(i) == strip(Slice(lines[i], 0, 14))

IsUTC(i) == startswith(LabelOf(i), <<"U", "T", "C">>)

\* line i is a non-UTC hour row of granularity 3 or 6, or 0 when it is none
HourRowOf(i) ==
  IF IsUTC(i) THEN 0
  ELSE IF endswith(LabelOf(i), <<"3", "H", "R", "L", "Y">>) THEN 3
  ELSE IF endswith(LabelOf(i), <<"6", "H", "R", "L", "Y">>) THEN 6
  ELSE 0

\* line i is a recognized row: a non-UTC hour row or a row of the label table
Recognized(i) ==
  ~IsUTC(i) /\ (HourRowOf(i) # 0 \/ LabelOf(i) \in DOMAIN nws_label_dict)

FieldOf(i) == IF HourRowOf(i) # 0 THEN "hour" ELSE nws_label_dict[LabelOf(i)]

\* the granularity of the most recent non-UTC hour row at or before line i,
\* 0 when there is none
GranularityAt(i) ==
  LET H == {j \in 1..i : HourRowOf(j) # 0}
  IN  IF H = {} THEN 0 ELSE HourRowOf(CHOOSE j \in H : \A k \in H : k <= j)

\* the rows of granularity g: per field, the data region of its last row
RowsOf(g) ==
  LET R == {i \in 1..Len(lines) : Recognized(i) /\ GranularityAt(i) = g}
  IN  [f \in {FieldOf(i) : i \in R} |->
         SliceFrom(lines[CHOOSE i \in R : FieldOf(i) = f
                           /\ \A j \in R : FieldOf(j) = f => j <= i], 14)]

\* C22: when the rows of a block are sorted, every recognized row has a
\* non-UTC hour row at or before it, and goes to the 3-hour rows iff the
\* most recent such hour row is a 3HRLY row and to the 6-hour rows iff it
\* is a 6HRLY row; UTC rows change nothing.
C22_Granularity ==
  [][pc = "rows" =>
       /\ \A i \in 1..Len(lines) : Recognized(i) => GranularityAt(i) \in {3, 6}
       /\ rows3' = RowsOf(3)
       /\ rows6' = RowsOf(6)]_vars

(***************************************************************************)
(* tempMin and tempMax, slot by slot.                                      *)
(***************************************************************************)

\* the combined rows of the section slot i belongs to, and its column map
RowsAt(i) == IF i <= nidx3 THEN rows3 ELSE rows6

IndicesAt(i) == IF i <= nidx3 THEN indices3 ELSE indices6

\* a MIN/MAX or MAX/MIN row of slot i's granularity has a token at slot i
CombinedTokenAt(i) ==
  \E f \in {"tempMinMax", "tempMaxMin"} : SourceOf(f, RowsAt(i), IndicesAt(i), idx)[i] # None

\* the section of slot i holds both a MIN/MAX and a MAX/MIN row
BothCombined(i) == {"tempMinMax", "tempMaxMin"} \subseteq DOMAIN RowsAt(i)

\* the 6-hour filldata leaves the 3-hour slots of tempMin and tempMax alone
Fill6KeepsFill3 ==
  (pc = "fill6" /\ result'.ret = "matrix") =>
    \A i \in 1..nidx3 :
      /\ matrix'["tempMin"][i] = matrix["tempMin"][i]
      /\ matrix'["tempMax"][i] = matrix["tempMax"][i]

====
